---- MODULE Spec2Model ----
(***************************************************************************)
(* route-whisperer admission webhook (webhook-server.py): the /mutate      *)
(* dispatcher, handle_create, handle_delete and build_response, run by     *)
(* concurrent request handlers against one ConfigMap store.                *)
(*                                                                         *)
(* A handler takes one step per store call: everything a handler computes  *)
(* between two store calls is local to it and belongs to the step of the   *)
(* call that precedes it.                                                  *)
(***************************************************************************)
EXTENDS Integers, Sequences, FiniteSets, TLC

\* Bounds of the model.
MaxHandlers == 2
MaxSubnets == 2

Handlers == 1..MaxHandlers

\* Python's None in a str-typed slot (a missing uid, a missing operation).
None == "<None>"

\* ------------------------------------------------------------------------
\* Inputs: admission requests
\* ------------------------------------------------------------------------

Names == {"net1", "net2"}
Namespace == "route-whisperer"
SubnetPool == <<"10.0.0.0/24", "10.1.0.0/24", "192.168.7.0/28">>
\* The subnets lists of the requests: one subnet, and the longest list.
SubnetLists == {SubSeq(SubnetPool, 1, k) : k \in {1, MaxSubnets}}
DecoySubnets == <<"198.51.100.0/24">>

Uid(h) == "uid-" \o ToString(h)

\* A ClusterUserDefinedNetwork carrying spec.network.layer2.subnets.
Cudn(S) == [spec |-> [network |-> [layer2 |-> [subnets |-> S]]]]

\* Objects without the nested subnets structure, cut at each level.
NoSpecObject == [kind |-> "ClusterUserDefinedNetwork"]
NoNetworkObject == [spec |-> [namespaceSelector |-> "all"]]
NoLayer2Object == [spec |-> [network |-> [topology |-> "Layer3"]]]
NoSubnetsObject == [spec |-> [network |-> [layer2 |-> [role |-> "Secondary"]]]]
BrokenObjects == {NoSpecObject, NoNetworkObject, NoLayer2Object, NoSubnetsObject}

\* The key of the request that holds the admitted resource.
ObjectKey(op) == IF op = "DELETE" THEN "oldObject" ELSE "object"
OtherKey(op) == IF op = "DELETE" THEN "object" ELSE "oldObject"

\* CREATE and DELETE requests as the API server sends them: the resource under
\* object (CREATE) or oldObject (DELETE), the other key absent.
BaseRequests(h) ==
    { [uid |-> Uid(h), operation |-> op, name |-> n] @@ (ObjectKey(op) :> Cudn(S)) :
        op \in {"CREATE", "DELETE"}, n \in Names, S \in SubnetLists }

\* Requests of the other operations, with both the new and the old object.
OtherRequests(h) ==
    { [uid |-> Uid(h), operation |-> op, name |-> n,
       object |-> Cudn(SubSeq(SubnetPool, 1, 1)), oldObject |-> Cudn(DecoySubnets)] :
        op \in {"UPDATE", "CONNECT"}, n \in Names }

\* CREATE and DELETE requests of an empty subnets list whose other object key is
\* filled too.
BothKeyRequests(h) ==
    { [uid |-> Uid(h), operation |-> op, name |-> "net1"]
        @@ (ObjectKey(op) :> Cudn(<<>>))
        @@ (OtherKey(op) :> Cudn(DecoySubnets)) :
        op \in {"CREATE", "DELETE"} }

\* Malformed requests: no uid, no operation, no nested subnets structure.
NoUidRequests ==
    { [operation |-> op, name |-> "net1"] @@ (ObjectKey(op) :> Cudn(SubSeq(SubnetPool, 1, 1))) :
        op \in {"CREATE", "DELETE", "UPDATE"} }

NoOperationRequests(h) ==
    { [uid |-> Uid(h), name |-> "net1", object |-> Cudn(SubSeq(SubnetPool, 1, 1))],
      [name |-> "net1", object |-> Cudn(SubSeq(SubnetPool, 1, 1))] }

NoSubnetsRequests(h) ==
    { [uid |-> Uid(h), operation |-> op, name |-> "net1"] : op \in {"CREATE", "DELETE"} }
    \cup { [uid |-> Uid(h), operation |-> op, name |-> "net1"] @@ (ObjectKey(op) :> o) :
             op \in {"CREATE", "DELETE"}, o \in BrokenObjects }

Requests(h) ==
    BaseRequests(h) \cup OtherRequests(h) \cup BothKeyRequests(h) \cup NoUidRequests
        \cup NoOperationRequests(h) \cup NoSubnetsRequests(h)

\* ------------------------------------------------------------------------
\* State
\* ------------------------------------------------------------------------

VARIABLES
    store,       \* the ConfigMaps of the store: a set of records
    pc,          \* pc[h]: "idle", "create", "patch" or "done"
    req,         \* req[h]: the admission request handler h received
    resp,        \* resp[h]: the AdmissionReview response, or the fault that ended h
    calls        \* calls[h]: the store calls h issued, with the status of each

vars == <<store, pc, req, resp, calls>>

NoRequest == [idle |-> TRUE]
NoResponse == [pending |-> TRUE]

IsResponse(r) == "response" \in DOMAIN r
IsFault(r) == "fault" \in DOMAIN r

\* ------------------------------------------------------------------------
\* Python values and conversions
\* ------------------------------------------------------------------------

\* dict.get(key) is None
Missing(d, key) == key \notin DOMAIN d

\* The value of the local variable subnets: a list, or None.
PyList(items) == [kind |-> "list", items |-> items]
PyNone == [kind |-> "None", items |-> <<>>]

\* An unhandled exception ends the handler; Flask answers HTTP 500 with no
\* AdmissionReview in the body.
AttributeError == [fault |-> "AttributeError", status |-> 0]
ApiException(status) == [fault |-> "ApiException", status |-> status]

\* object.get('spec').get('network').get('layer2').get('subnets') on
\* (admission_request.get(key) or {}): .get of a missing key is None, and
\* .get on None raises AttributeError.
GetSubnets(admission_request, key) ==
    IF Missing(admission_request, key) THEN AttributeError
    ELSE LET object == admission_request[key] IN
         IF Missing(object, "spec") THEN AttributeError
         ELSE IF Missing(object.spec, "network") THEN AttributeError
         ELSE IF Missing(object.spec.network, "layer2") THEN AttributeError
         ELSE IF Missing(object.spec.network.layer2, "subnets") THEN PyNone
         ELSE PyList(object.spec.network.layer2.subnets)

\* json.dumps of a str (the strings of the model need no escaping).
JsonString(s) == "\"" \o s \o "\""

RECURSIVE JsonItems(_, _)
JsonItems(items, item_separator) ==
    IF items = <<>> THEN ""
    ELSE IF Len(items) = 1 THEN JsonString(items[1])
    ELSE JsonString(Head(items)) \o item_separator \o JsonItems(Tail(items), item_separator)

\* json.dumps of None or of a list of str.
JsonDumps(v, item_separator) ==
    IF v.kind = "None" THEN "null"
    ELSE "[" \o JsonItems(v.items, item_separator) \o "]"

\* Variant: json.dumps(subnets) with Python's default separators (', ', ': ').
DefaultSubnetsJson(subnets) == JsonDumps(subnets, ", ")

\* json.dumps(subnets, separators=(',', ':'))
SubnetsJson(subnets) == JsonDumps(subnets, ",")

\* json.dumps(json_patches): a list of dicts with the keys op, path, value,
\* with the default separators.
JsonDumpsOp(p) ==
    "{\"op\": " \o JsonString(p.op) \o ", \"path\": " \o JsonString(p.path)
        \o ", \"value\": " \o JsonString(p.value) \o "}"

RECURSIVE JsonOps(_)
JsonOps(ops) ==
    IF ops = <<>> THEN ""
    ELSE IF Len(ops) = 1 THEN JsonDumpsOp(ops[1])
    ELSE JsonDumpsOp(Head(ops)) \o ", " \o JsonOps(Tail(ops))

JsonDumpsPatches(ops) == "[" \o JsonOps(ops) \o "]"

\* base64.b64encode(...).decode("ascii"): the encoded text, kept apart from the
\* text it encodes (strings have no characters to recode here).
Base64Encode(text) == [encoding |-> "base64", text |-> text]

\* ------------------------------------------------------------------------
\* The store: CoreV1Api on the ConfigMaps of one cluster
\* ------------------------------------------------------------------------

\* Status codes of the store calls: 201 and 200 are the successes of create
\* and patch, 409 the conflict the handlers test for, the others are errors.
Conflict == 409
StoreErrors == {500}
\* Variant: the except block without its else: raise, so that every exception
\* but the conflict is swallowed.
SucceededOrSwallowed(status) == status # Conflict

Succeeded(status) == status \in {200, 201}

\* A strategic merge patch of a string map: the keys of the patch overwrite,
\* the other keys stay.
MergeData(data, patch) ==
    [k \in DOMAIN data \cup DOMAIN patch |-> IF k \in DOMAIN patch THEN patch[k] ELSE data[k]]

Named(s, name, namespace) == {c \in s : c.name = name /\ c.namespace = namespace}

\* v1.create_namespaced_config_map(namespace, body): atomic; 409 when a
\* ConfigMap of that name exists in the namespace.
CreateNamespacedConfigMap(s, namespace, body) ==
    IF Named(s, body.name, namespace) # {}
    THEN [status |-> Conflict, store |-> s]
    ELSE [status |-> 201,
          store |-> s \cup {[name |-> body.name, namespace |-> namespace,
                             labels |-> body.labels, data |-> body.data]}]

\* v1.patch_namespaced_config_map(name, namespace, body): atomic; merges the
\* maps the body carries (data, labels) into those of the ConfigMap and leaves
\* the maps it does not carry.
PatchNamespacedConfigMap(s, name, namespace, body) ==
    IF Named(s, name, namespace) = {}
    THEN [status |-> 404, store |-> s]
    ELSE [status |-> 200,
          store |-> {IF c \in Named(s, name, namespace)
                     THEN [c EXCEPT
                             !.data = IF "data" \in DOMAIN body
                                      THEN MergeData(@, body.data) ELSE @,
                             !.labels = IF "labels" \in DOMAIN body
                                        THEN MergeData(@, body.labels) ELSE @]
                     ELSE c : c \in s}]

\* A call that ends in an exception other than the conflict: the store refused
\* it and is as it was (s), or the failure came after the store had applied the
\* call (applied), as when the reply is lost or times out.
FailedCall(s, applied) == {[status |-> e, store |-> x] : e \in StoreErrors, x \in {s, applied}}

\* ConfigMaps that may be in the namespace before any request: none, or one
\* that something else left there under the name.
PriorConfigMap(n) ==
    [name |-> n, namespace |-> Namespace,
     labels |-> ("owner" :> "netops"),
     data |-> [subnets |-> "[\"172.16.0.0/12\"]", populate |-> "false", comment |-> "keep"]]

InitialStores == {{PriorConfigMap(n) : n \in P} : P \in SUBSET Names}

\* ------------------------------------------------------------------------
\* build_response, handle_create, handle_delete
\* ------------------------------------------------------------------------

\* json_patches=None, the default of build_response
NoPatches == <<>>

\* Variant: the patch fields attached without the test of json_patches.
build_response_unconditional_patch(uid, json_patches, allowed) ==
    [apiVersion |-> "admission.k8s.io/v1",
     kind |-> "AdmissionReview",
     response |-> [allowed |-> allowed, uid |-> uid,
                   patch |-> Base64Encode(JsonDumpsPatches(json_patches)),
                   patchType |-> "JSONPatch"]]

build_response(uid, json_patches, allowed) ==
    LET response == [allowed |-> allowed, uid |-> uid] IN
    [apiVersion |-> "admission.k8s.io/v1",
     kind |-> "AdmissionReview",
     response |-> IF json_patches # NoPatches
                  THEN response @@ [patch |-> Base64Encode(JsonDumpsPatches(json_patches)),
                                    patchType |-> "JSONPatch"]
                  ELSE response]

\* admission_request.get('uid'), admission_request.get('operation')
GetUid(admission_request) ==
    IF Missing(admission_request, "uid") THEN None ELSE admission_request.uid
GetOperation(admission_request) ==
    IF Missing(admission_request, "operation") THEN None ELSE admission_request.operation

\* Variant: the '/' of the label key left unescaped in the path.
json_patches_unescaped(cudn_name) ==
    << [op |-> "add",
        path |-> "/metadata/labels/route-whisperer.openinfra.io/configmap",
        value |-> cudn_name] >>

\* json_patches of handle_create
json_patches(cudn_name) ==
    << [op |-> "add",
        path |-> "/metadata/labels/route-whisperer.openinfra.io~1configmap",
        value |-> cudn_name] >>

MarkerLabels == ("route-whisperer.openinfra.io" :> "")

\* Variant: the fallback patch of handle_create with populate 'false'.
create_patch_body_withdrawn(subnets) ==
    [data |-> [subnets |-> SubnetsJson(subnets), populate |-> "false"]]

\* The ConfigMap of handle_create named after the namespace.
create_configmap_named_by_namespace(cudn_name, subnets) ==
    [name |-> Namespace, labels |-> MarkerLabels,
     data |-> [subnets |-> SubnetsJson(subnets), populate |-> "true"]]

\* The patch body of handle_create with the labels of the ConfigMap in it.
create_patch_body_with_labels(subnets) ==
    [labels |-> MarkerLabels,
     data |-> [subnets |-> SubnetsJson(subnets), populate |-> "true"]]

\* configmap of handle_create, and the body of its fallback patch
create_configmap(cudn_name, subnets) ==
    [name |-> cudn_name, labels |-> MarkerLabels,
     data |-> [subnets |-> SubnetsJson(subnets), populate |-> "true"]]
create_patch_body(subnets) ==
    [data |-> [subnets |-> SubnetsJson(subnets), populate |-> "true"]]

\* Variants: the configmap of handle_delete with the populate 'true' of
\* handle_create; its fallback patch without the subnets key.
delete_configmap_published(cudn_name, subnets) ==
    [name |-> cudn_name, labels |-> MarkerLabels,
     data |-> [subnets |-> SubnetsJson(subnets), populate |-> "true"]]
delete_patch_body_populate_only(subnets) ==
    [data |-> [populate |-> "false"]]

\* Variant: the configmap of handle_delete under one name for every network.
delete_configmap_one_name(cudn_name, subnets) ==
    [name |-> "net1", labels |-> MarkerLabels,
     data |-> [subnets |-> SubnetsJson(subnets), populate |-> "false"]]

\* configmap of handle_delete, and the body of its fallback patch
delete_configmap(cudn_name, subnets) ==
    [name |-> cudn_name, labels |-> MarkerLabels,
     data |-> [subnets |-> SubnetsJson(subnets), populate |-> "false"]]
delete_patch_body(subnets) ==
    [data |-> [subnets |-> SubnetsJson(subnets), populate |-> "false"]]

\* Variants: handle_create answering with the resource name as uid; handle_delete
\* answering with the label patch of handle_create.
create_return_name_as_uid(admission_request) ==
    build_response(admission_request.name, json_patches(admission_request.name), TRUE)
delete_return_with_patch(admission_request) ==
    build_response(GetUid(admission_request), json_patches(admission_request.name), TRUE)

\* What handle_create and handle_delete return once the store call succeeded.
create_return(admission_request) ==
    build_response(GetUid(admission_request), json_patches(admission_request.name), TRUE)
delete_return(admission_request) ==
    build_response(GetUid(admission_request), NoPatches, TRUE)

\* The handler mutate() picks, by operation.
IsCreate(r) == GetOperation(r) = "CREATE"

\* The DELETE test with the operation spelled in lower case.
IsDeleteLowerCase(r) == GetOperation(r) = "delete"

\* Variant: the DELETE branch of mutate written as the else branch.
IsDeleteElse(r) == GetOperation(r) # "CREATE"

IsDelete(r) == GetOperation(r) = "DELETE"
Subnets(r) == IF IsCreate(r) THEN GetSubnets(r, "object") ELSE GetSubnets(r, "oldObject")
ConfigMap(r) ==
    IF IsCreate(r) THEN create_configmap(r.name, Subnets(r))
    ELSE delete_configmap(r.name, Subnets(r))
PatchBody(r) ==
    IF IsCreate(r) THEN create_patch_body(Subnets(r)) ELSE delete_patch_body(Subnets(r))
Return(r) == IF IsCreate(r) THEN create_return(r) ELSE delete_return(r)

\* Variant: the except block testing for 404 instead of 409.
IsConflictNotFound(status) == status = 404

\* The conflict test with the status compared to a string: never true.
IsConflictString(status) == FALSE

\* The conflict test widened to every status from 409 up.
IsConflictOrWorse(status) == status >= Conflict

\* except ApiException as e: if e.status == 409
IsConflict(status) == status = Conflict

\* The create call sent to the namespace "default" instead of args.namespace.
create_call_default_namespace(s, r) == CreateNamespacedConfigMap(s, "default", ConfigMap(r))

\* The two store calls of a handler for request r, on store s.
create_call(s, r) == CreateNamespacedConfigMap(s, Namespace, ConfigMap(r))
patch_call(s, r) == PatchNamespacedConfigMap(s, r.name, Namespace, PatchBody(r))

\* The store a handler for r leaves when it runs from its first store call to
\* its end on store s with no other handler in between and no store error.
run_alone(s, r) ==
    LET created == create_call(s, r) IN
    IF Succeeded(created.status) THEN created.store
    ELSE IF IsConflict(created.status) THEN patch_call(created.store, r).store
    ELSE created.store

\* ------------------------------------------------------------------------
\* Actions
\* ------------------------------------------------------------------------

Finish(h, result) ==
    /\ pc' = [pc EXCEPT ![h] = "done"]
    /\ resp' = [resp EXCEPT ![h] = result]

Called(h, verb, status) ==
    calls' = [calls EXCEPT ![h] = Append(@, [verb |-> verb, name |-> req[h].name,
                                             status |-> status])]

\* POST /mutate: handler h receives a request, dispatches on its operation and
\* runs the chosen handler up to its first store call. Handlers are numbered in
\* the order their requests arrive.
mutate(h) ==
    /\ pc[h] = "idle"
    /\ \A g \in Handlers : g < h => pc[g] # "idle"
    /\ \E admission_request \in Requests(h) :
        /\ req' = [req EXCEPT ![h] = admission_request]
        /\ IF IsCreate(admission_request) \/ IsDelete(admission_request)
           THEN IF IsFault(Subnets(admission_request))
                THEN Finish(h, Subnets(admission_request))
                ELSE /\ pc' = [pc EXCEPT ![h] = "create"]
                     /\ UNCHANGED resp
           ELSE Finish(h, build_response(GetUid(admission_request), NoPatches, TRUE))
    /\ UNCHANGED <<store, calls>>

\* The try block: create the ConfigMap; done when that succeeds, on to the
\* patch when it conflicts, the exception raised otherwise.
create_config_map(h) ==
    /\ pc[h] = "create"
    /\ \E result \in {create_call(store, req[h])}
                        \cup FailedCall(store, create_call(store, req[h]).store) :
        /\ store' = result.store
        /\ Called(h, "create", result.status)
        /\ IF Succeeded(result.status) THEN Finish(h, Return(req[h]))
           ELSE IF IsConflict(result.status)
           THEN /\ pc' = [pc EXCEPT ![h] = "patch"]
                /\ UNCHANGED resp
           ELSE Finish(h, ApiException(result.status))
    /\ UNCHANGED req

\* Variant: the except block with the patch tried again when it fails.
patch_config_map_retrying(h) ==
    /\ pc[h] = "patch"
    /\ \E result \in {patch_call(store, req[h])}
                        \cup FailedCall(store, patch_call(store, req[h]).store) :
        /\ store' = result.store
        /\ Called(h, "patch", result.status)
        /\ IF Succeeded(result.status) THEN Finish(h, Return(req[h]))
           ELSE IF Len(calls[h]) < 3 THEN UNCHANGED <<pc, resp>>
           ELSE Finish(h, ApiException(result.status))
    /\ UNCHANGED req

\* The except block on a conflict: patch the ConfigMap's data.
patch_config_map(h) ==
    /\ pc[h] = "patch"
    /\ \E result \in {patch_call(store, req[h])}
                        \cup FailedCall(store, patch_call(store, req[h]).store) :
        /\ store' = result.store
        /\ Called(h, "patch", result.status)
        /\ IF Succeeded(result.status) THEN Finish(h, Return(req[h]))
           ELSE Finish(h, ApiException(result.status))
    /\ UNCHANGED req

Init ==
    /\ store \in InitialStores
    /\ pc = [h \in Handlers |-> "idle"]
    /\ req = [h \in Handlers |-> NoRequest]
    /\ resp = [h \in Handlers |-> NoResponse]
    /\ calls = [h \in Handlers |-> <<>>]

Next == \E h \in Handlers : mutate(h) \/ create_config_map(h) \/ patch_config_map(h)

Spec == Init /\ [][Next]_vars

\* ------------------------------------------------------------------------
\* Vocabulary of the properties
\* ------------------------------------------------------------------------

\* The companion records of name n.
Records(s, n) == {c \in s : c.name = n /\ c.namespace = Namespace}

\* The request carries a subnets list where its operation looks for the resource.
HasSubnetList(r) ==
    /\ ~Missing(r, "operation")
    /\ ~Missing(r, ObjectKey(r.operation))
    /\ \E S \in SubnetLists \cup {<<>>, DecoySubnets} : r[ObjectKey(r.operation)] = Cudn(S)

AdmittedSubnets(r) == r[ObjectKey(r.operation)].spec.network.layer2.subnets

\* Canonical serialization of a list of subnet strings: whitespace-minimal JSON,
\* built from the left.
RECURSIVE CanonicalItems(_, _)
CanonicalItems(S, k) ==
    IF k = 0 THEN ""
    ELSE CanonicalItems(S, k - 1) \o (IF k > 1 THEN "," ELSE "") \o "\"" \o S[k] \o "\""
CanonicalSerialize(S) == "[" \o CanonicalItems(S, Len(S)) \o "]"

\* The data a request wants in its companion record.
DesiredPopulate(r) == IF r.operation = "CREATE" THEN "true" ELSE "false"
Matches(c, r) ==
    /\ c.data.subnets = CanonicalSerialize(AdmittedSubnets(r))
    /\ c.data.populate = DesiredPopulate(r)

\* Handler h ends in this step with an admission response.
Responds(h) == pc[h] # "done" /\ pc'[h] = "done" /\ IsResponse(resp'[h])

Responded(h) == pc[h] = "done" /\ IsResponse(resp[h])
StatusesOf(h) == [i \in DOMAIN calls[h] |-> calls[h][i].status]

\* ------------------------------------------------------------------------
\* C1
\* ------------------------------------------------------------------------

\* C1: whenever the handling of a CREATE request with name n and subnets S
\* completes with a response, the store holds, at that moment, exactly one record
\* named n, whose data.subnets is the compact serialization of S and whose
\* data.populate is "true", whether the record was created or already there.
C1_CreateLeavesRecord ==
    [][\A h \in Handlers :
        (Responds(h) /\ IsCreate(req[h]) /\ HasSubnetList(req[h]))
            => /\ Cardinality(Records(store', req[h].name)) = 1
               /\ \A c \in Records(store', req[h].name) : Matches(c, req[h])]_vars

\* Two CREATE requests of two subnets each have completed, one by creating its
\* record, one by patching a record that was there with other content.
C1_Witness ==
    \E g, h \in Handlers :
        /\ Responded(g) /\ IsCreate(req[g]) /\ HasSubnetList(req[g])
        /\ Len(AdmittedSubnets(req[g])) = 2
        /\ StatusesOf(g) = <<201>>
        /\ \E c \in Records(store, req[g].name) : Matches(c, req[g])
        /\ Responded(h) /\ IsCreate(req[h]) /\ HasSubnetList(req[h])
        /\ Len(AdmittedSubnets(req[h])) = 2
        /\ StatusesOf(h) = <<409, 200>>
        /\ \E c \in Records(store, req[h].name) :
              Matches(c, req[h]) /\ "comment" \in DOMAIN c.data

\* ------------------------------------------------------------------------
\* C2
\* ------------------------------------------------------------------------

\* C2: whenever the handling of a DELETE request with name n completes with a
\* response, the store holds, at that moment, exactly one record named n, whose
\* data.populate is "false" and whose data.subnets is the serialization of
\* oldObject's subnets, whatever was there before.
C2_DeleteLeavesRecord ==
    [][\A h \in Handlers :
        (Responds(h) /\ IsDelete(req[h]) /\ HasSubnetList(req[h]))
            => /\ Cardinality(Records(store', req[h].name)) = 1
               /\ \A c \in Records(store', req[h].name) : Matches(c, req[h])]_vars

\* A DELETE whose request also carries an object with other subnets has
\* completed on the record a CREATE had left with populate "true".
C2_Witness ==
    \E g, h \in Handlers :
        /\ Responded(g) /\ IsCreate(req[g]) /\ StatusesOf(g) = <<201>>
        /\ Responded(h) /\ IsDelete(req[h]) /\ HasSubnetList(req[h])
        /\ req[h].name = req[g].name
        /\ ~Missing(req[h], "object")
        /\ AdmittedSubnets(req[h]) # req[h].object.spec.network.layer2.subnets
        /\ StatusesOf(h) = <<409, 200>>
        /\ \E c \in Records(store, req[h].name) : Matches(c, req[h])

\* ------------------------------------------------------------------------
\* C3, C4
\* ------------------------------------------------------------------------

\* Handler h has reached the store calls of handle_create or handle_delete.
Reconciling(h) == pc[h] \in {"create", "patch"} \/ calls[h] # <<>>
ReconcilingFor(n) == {h \in Handlers : Reconciling(h) /\ req[h].name = n}

SameContent(r1, r2) ==
    /\ r1.operation = r2.operation
    /\ AdmittedSubnets(r1) = AdmittedSubnets(r2)

\* Ended by a store error that is not the conflict of the create race.
FailedByStoreError(h) ==
    pc[h] = "done" /\ IsFault(resp[h]) /\ resp[h].status \in StoreErrors

\* C3: when two or more handlers reconcile the same name with the same desired
\* content and all of them have finished, none has failed for having lost the
\* create race (a handler fails by a store error only), and if one has succeeded
\* there is exactly one record of that name, holding the desired content.
C3_SameContentConverges ==
    \A n \in Names :
        LET G == ReconcilingFor(n) IN
        ( /\ Cardinality(G) >= 2
          /\ \A h \in G : pc[h] = "done" /\ HasSubnetList(req[h])
          /\ \A g, h \in G : SameContent(req[g], req[h]) )
        => /\ \A h \in G : Responded(h) \/ FailedByStoreError(h)
           /\ (\E h \in G : Responded(h))
                => /\ Cardinality(Records(store, n)) = 1
                   /\ \A c \in Records(store, n) : \A h \in G : Matches(c, req[h])

\* Two handlers with the same content raced: the one whose request came first
\* lost the create to the other, patched, and both have responded.
C3_Witness ==
    \E g, h \in Handlers :
        /\ g < h /\ Responded(g) /\ Responded(h)
        /\ req[g].name = req[h].name
        /\ HasSubnetList(req[g]) /\ HasSubnetList(req[h])
        /\ SameContent(req[g], req[h]) /\ IsCreate(req[g])
        /\ StatusesOf(g) = <<409, 200>> /\ StatusesOf(h) = <<201>>
        /\ Cardinality(Records(store, req[g].name)) = 1
        /\ \A c \in Records(store, req[g].name) : Matches(c, req[g])

\* C4: when two or more handlers reconcile the same name, whatever their
\* operations and subnets, and all have finished, one of them having succeeded,
\* there is exactly one record of that name and its data.subnets and
\* data.populate are together the desired content of one single handler.
C4_ConsistentFinalState ==
    \A n \in Names :
        LET G == ReconcilingFor(n) IN
        ( /\ Cardinality(G) >= 2
          /\ \A h \in G : pc[h] = "done" /\ HasSubnetList(req[h])
          /\ \E h \in G : Responded(h) )
        => /\ Cardinality(Records(store, n)) = 1
           /\ \E h \in G : \A c \in Records(store, n) : Matches(c, req[h])

\* A CREATE and a DELETE of different subnets raced on one name: the CREATE came
\* first, lost the create to the DELETE and patched; the record is the CREATE's.
C4_Witness ==
    \E g, h \in Handlers :
        /\ g < h /\ Responded(g) /\ Responded(h)
        /\ req[g].name = req[h].name
        /\ IsCreate(req[g]) /\ IsDelete(req[h])
        /\ HasSubnetList(req[g]) /\ HasSubnetList(req[h])
        /\ AdmittedSubnets(req[g]) # AdmittedSubnets(req[h])
        /\ StatusesOf(g) = <<409, 200>> /\ StatusesOf(h) = <<201>>
        /\ \A c \in Records(store, req[g].name) : Matches(c, req[g]) /\ ~Matches(c, req[h])

\* ------------------------------------------------------------------------
\* C5
\* ------------------------------------------------------------------------

\* C5: from every store on which a handler is about to handle a CREATE or DELETE
\* request, handling that request twice in succession leaves the same records,
\* data and labels, as handling it once.
C5_Idempotent ==
    \A h \in Handlers :
        (pc[h] = "create" /\ HasSubnetList(req[h]))
            => run_alone(run_alone(store, req[h]), req[h]) = run_alone(store, req[h])

\* The same DELETE content was handled twice in succession: the first handler
\* created the record, the second found it and patched it; the record holds that
\* content under the labels the create gave it.
C5_Witness ==
    \E g, h \in Handlers :
        /\ g < h /\ Responded(g) /\ Responded(h)
        /\ req[g].name = req[h].name
        /\ IsDelete(req[g]) /\ HasSubnetList(req[g]) /\ HasSubnetList(req[h])
        /\ SameContent(req[g], req[h])
        /\ StatusesOf(g) = <<201>> /\ StatusesOf(h) = <<409, 200>>
        /\ store = run_alone(store, req[h])
        /\ \A c \in Records(store, req[g].name) : Matches(c, req[g]) /\ c.labels = MarkerLabels

\* ------------------------------------------------------------------------
\* C6 .. C9: the admission response
\* ------------------------------------------------------------------------

Response(h) == resp[h].response
HasPatch(r) == "patch" \in DOMAIN r \/ "patchType" \in DOMAIN r

\* C6: every admission response, of whatever operation and however the handlers
\* interleave, carries the uid of the request it answers (None for a request
\* that has none).
C6_UidEchoed ==
    \A h \in Handlers :
        IsResponse(resp[h])
            => /\ "uid" \in DOMAIN Response(h)
               /\ Response(h).uid = (IF Missing(req[h], "uid") THEN None ELSE req[h].uid)

\* Two handlers raced on one name, a CREATE and a DELETE, and each has answered
\* with its own request's uid.
C6_Witness ==
    \E g, h \in Handlers :
        /\ g < h /\ Responded(g) /\ Responded(h)
        /\ IsCreate(req[g]) /\ IsDelete(req[h])
        /\ StatusesOf(g) = <<409, 200>> /\ StatusesOf(h) = <<201>>
        /\ Response(g).uid = Uid(g) /\ Response(h).uid = Uid(h)
        /\ Response(g).uid # Response(h).uid

\* C7: a request whose operation is neither CREATE nor DELETE is answered with
\* allowed = true and neither a patch nor a patchType field.
C7_PassThrough ==
    \A h \in Handlers :
        (pc[h] = "done" /\ GetOperation(req[h]) \notin {"CREATE", "DELETE"})
            => /\ IsResponse(resp[h])
               /\ Response(h).allowed = TRUE
               /\ DOMAIN Response(h) = {"allowed", "uid"}

\* An UPDATE and a CONNECT request have been answered.
C7_Witness ==
    \E g, h \in Handlers :
        /\ Responded(g) /\ GetOperation(req[g]) = "UPDATE"
        /\ Responded(h) /\ GetOperation(req[h]) = "CONNECT"
        /\ ~HasPatch(Response(g)) /\ ~HasPatch(Response(h))

\* C8: a response carries a patch or a patchType only if its request's operation
\* is CREATE.
C8_PatchOnlyOnCreate ==
    \A h \in Handlers :
        (IsResponse(resp[h]) /\ HasPatch(Response(h))) => GetOperation(req[h]) = "CREATE"

\* A CREATE has been answered with a patch and a DELETE of the same name, which
\* updated the CREATE's record, without one.
C8_Witness ==
    \E g, h \in Handlers :
        /\ Responded(g) /\ IsCreate(req[g]) /\ HasPatch(Response(g))
        /\ Responded(h) /\ IsDelete(req[h]) /\ ~HasPatch(Response(h))
        /\ req[g].name = req[h].name
        /\ StatusesOf(g) = <<201>> /\ StatusesOf(h) = <<409, 200>>

\* JSON Pointer escaping (RFC 6901) of a reference token given in pieces:
\* '~' becomes '~0' and '/' becomes '~1'.
EscapePiece(p) == IF p = "~" THEN "~0" ELSE IF p = "/" THEN "~1" ELSE p
RECURSIVE EscapeToken(_)
EscapeToken(pieces) ==
    IF pieces = <<>> THEN "" ELSE EscapePiece(Head(pieces)) \o EscapeToken(Tail(pieces))

\* The label key route-whisperer.openinfra.io/configmap
LabelKey == <<"route-whisperer.openinfra.io", "/", "configmap">>

\* The JSON text of a patch of one add operation on that label, with value n.
OneAddOperation(n) ==
    "[{\"op\": \"add\", \"path\": \"/metadata/labels/" \o EscapeToken(LabelKey)
        \o "\", \"value\": \"" \o n \o "\"}]"

\* C9: the response to a handled CREATE request of name n carries, base64
\* encoded and typed JSONPatch, a patch of exactly one operation: op "add", the
\* path of the label with its '/' escaped as '~1', value n.
C9_OneAddOperation ==
    \A h \in Handlers :
        (IsResponse(resp[h]) /\ IsCreate(req[h]))
            => /\ DOMAIN Response(h) = {"allowed", "uid", "patch", "patchType"}
               /\ Response(h).patchType = "JSONPatch"
               /\ Response(h).patch = [encoding |-> "base64", text |-> OneAddOperation(req[h].name)]

\* CREATE requests of both names have been answered, each with its patch.
C9_Witness ==
    \E g, h \in Handlers :
        /\ Responded(g) /\ IsCreate(req[g]) /\ req[g].name = "net1"
        /\ Responded(h) /\ IsCreate(req[h]) /\ req[h].name = "net2"
        /\ Response(g).patch.text = OneAddOperation("net1")
        /\ Response(h).patch.text = OneAddOperation("net2")

\* ------------------------------------------------------------------------
\* C10
\* ------------------------------------------------------------------------

\* No uid, no operation, or a CREATE or DELETE without the nested subnets list.
Malformed(r) ==
    \/ Missing(r, "uid")
    \/ Missing(r, "operation")
    \/ (r.operation \in {"CREATE", "DELETE"} /\ ~HasSubnetList(r))

\* C10: a malformed request makes no store call and is answered with an admission
\* response that has allowed = false and the request's uid, empty if it has none.
C10_MalformedDenied ==
    \A h \in Handlers :
        (pc[h] # "idle" /\ Malformed(req[h]))
            => /\ calls[h] = <<>>
               /\ pc[h] = "done"
                    => /\ IsResponse(resp[h])
                       /\ Response(h).allowed = FALSE
                       /\ Response(h).uid = (IF Missing(req[h], "uid") THEN "" ELSE req[h].uid)

\* ---------------------------------------------------------------------------
\* C11: the create conflict is recovered by the patch
\* ---------------------------------------------------------------------------

\* The handler's create was answered by the conflict.
CreateConflicted(h) == calls[h] # <<>> /\ calls[h][1].status = 409

\* The response of the path without conflict: allowed, the request's uid, and
\* the label patch on CREATE only.
NoConflictResponse(h) ==
    /\ IsResponse(resp[h])
    /\ Response(h).allowed = TRUE
    /\ Response(h).uid = (IF "uid" \in DOMAIN req[h] THEN req[h].uid ELSE None)
    /\ HasPatch(Response(h)) <=> req[h].operation = "CREATE"
    /\ req[h].operation = "CREATE" =>
           Response(h).patch.text = OneAddOperation(req[h].name)

\* C11: a handler whose create was answered 409 goes on to the patch (it is at
\* the patch or has made it as its second call); when the patch succeeded, the
\* handler's response is the allowed response of the path without conflict;
\* and no handler ever ends with the conflict as its failure.
C11_ConflictRecovered ==
    \A h \in Handlers :
        /\ CreateConflicted(h) =>
               /\ \/ pc[h] = "patch" /\ Len(calls[h]) = 1
                  \/ pc[h] = "done" /\ Len(calls[h]) = 2 /\ calls[h][2].verb = "patch"
               /\ (pc[h] = "done" /\ calls[h][2].status = 200) => NoConflictResponse(h)
        /\ (pc[h] = "done" /\ IsFault(resp[h])) => resp[h].status # 409

\* A CREATE handler and a DELETE handler have both met the conflict, patched
\* and answered.
C11_Witness ==
    \E g, h \in Handlers :
        /\ Responded(g) /\ Responded(h)
        /\ StatusesOf(g) = <<409, 200>> /\ StatusesOf(h) = <<409, 200>>
        /\ req[g].operation = "CREATE" /\ req[h].operation = "DELETE"
        /\ NoConflictResponse(g) /\ NoConflictResponse(h)

\* ---------------------------------------------------------------------------
\* C12: a store failure other than the create conflict ends the handler
\* ---------------------------------------------------------------------------

\* Handler h makes a store call in this step; the call it makes.
CallsStore(h) == Len(calls'[h]) = Len(calls[h]) + 1
NewCall(h) == calls'[h][Len(calls'[h])]

\* The call h makes in this step fails with anything but the create conflict.
CallFails(h) ==
    /\ CallsStore(h)
    /\ NewCall(h).status \notin {200, 201}
    /\ ~(NewCall(h).verb = "create" /\ NewCall(h).status = 409)

\* A handler that is done makes no store call and keeps its outcome.
DoneIsFinal(h) == pc[h] = "done" => calls'[h] = calls[h] /\ resp'[h] = resp[h]

\* The failed call ends the handler with the failure, not with a response.
FailurePropagated(h) ==
    /\ pc'[h] = "done"
    /\ IsFault(resp'[h])
    /\ resp'[h].status = NewCall(h).status

\* The record c holds what the call of request r writes: r's populate and, when
\* r carries a subnet list, that list serialized.
WrittenBy(c, r) ==
    /\ c.data.populate = DesiredPopulate(r)
    /\ HasSubnetList(r) => c.data.subnets = CanonicalSerialize(AdmittedSubnets(r))

\* C12 as stated: after a failed call the handler makes no further store call,
\* no allowed response is produced for the request, and the record of the
\* request's name is as it was before the call.
C12_FailedCallLeavesRecord ==
    [][\A h \in Handlers :
          /\ DoneIsFinal(h)
          /\ CallFails(h) => /\ FailurePropagated(h)
                             /\ Records(store', req[h].name)
                                    = Records(store, req[h].name)]_vars

\* C12, amended: after a failed call the handler makes no further store call
\* and ends with the failure, so no allowed response is produced; the record of
\* the request's name is as it was before the call when the store refused the
\* call, and holds the call's desired content when the store had applied the
\* call before the failure reached the handler, which the handler does not
\* undo.
C12_FailureNotRetried ==
    [][\A h \in Handlers :
          /\ DoneIsFinal(h)
          /\ CallFails(h) =>
                /\ FailurePropagated(h)
                /\ \/ Records(store', req[h].name) = Records(store, req[h].name)
                   \/ /\ Records(store', req[h].name) # {}
                      /\ \A c \in Records(store', req[h].name) : WrittenBy(c, req[h])]_vars

\* One handler's patch failed after the store had applied it: the record holds
\* that handler's content and nobody else has called the store for the name.
\* The other handler's create failed and left its name without a record. Both
\* ended with the failure.
C12_Witness ==
    \E g, h \in Handlers :
        /\ pc[g] = "done" /\ pc[h] = "done"
        /\ IsFault(resp[g]) /\ IsFault(resp[h])
        /\ StatusesOf(g) = <<409, 500>> /\ StatusesOf(h) = <<500>>
        /\ req[g].name # req[h].name
        /\ Records(store, req[g].name) # {}
        /\ HasSubnetList(req[g])
        /\ \A c \in Records(store, req[g].name) : WrittenBy(c, req[g])
        /\ Records(store, req[h].name) = {}

\* ---------------------------------------------------------------------------
\* C13: reconciliations per request
\* ---------------------------------------------------------------------------

\* A reconciliation is one run of the create-then-patch protocol, which opens
\* with the create call: the number of reconciliations handler h has started.
ReconciliationsOf(h) ==
    Cardinality({i \in DOMAIN calls[h] : calls[h][i].verb = "create"})

\* The request is one the dispatcher hands to handle_create or handle_delete.
Dispatched(r) == ~Missing(r, "operation") /\ r.operation \in {"CREATE", "DELETE"}

\* The handler can walk the request's object down to layer2.
ReachesLayer2(r) ==
    /\ ~Missing(r, ObjectKey(r.operation))
    /\ LET o == r[ObjectKey(r.operation)] IN
        /\ ~Missing(o, "spec")
        /\ ~Missing(o.spec, "network")
        /\ ~Missing(o.spec.network, "layer2")

\* C13 as stated: every request that has been handled has caused exactly one
\* reconciliation, never zero and never more than one.
C13_OneReconciliationPerRequest ==
    \A h \in Handlers : pc[h] = "done" => ReconciliationsOf(h) = 1

\* C13, amended: a handled CREATE or DELETE request whose object the handler
\* can walk down to layer2 has caused exactly one reconciliation; a CREATE or
\* DELETE request on which the handler fails before that, and a request of any
\* other operation, has caused none; no request ever causes more than one.
C13_OneReconciliationWhenDispatched ==
    \A h \in Handlers :
        /\ ReconciliationsOf(h) <= 1
        /\ pc[h] = "done" =>
               ReconciliationsOf(h)
                   = (IF Dispatched(req[h]) /\ ReachesLayer2(req[h]) THEN 1 ELSE 0)

\* A CREATE or DELETE request has gone through one reconciliation of two store
\* calls, and an UPDATE request has been answered without any.
C13_Witness ==
    \E g, h \in Handlers :
        /\ Responded(g) /\ Responded(h)
        /\ Dispatched(req[g]) /\ StatusesOf(g) = <<409, 200>>
        /\ ReconciliationsOf(g) = 1
        /\ GetOperation(req[h]) = "UPDATE" /\ ReconciliationsOf(h) = 0

\* ---------------------------------------------------------------------------
\* C14: how a record comes into existence and how it is updated
\* ---------------------------------------------------------------------------

\* The record c is in the store after this step and no record of its name and
\* namespace was there before.
Appears(c) ==
    /\ c \in store'
    /\ \A d \in store : d.name # c.name \/ d.namespace # c.namespace

\* Every record that appears in this step is the one a handler of an operation
\* in ops creates for its request's name in this step, with the marker label
\* and the request's content.
CreatedOnlyBy(ops) ==
    \A c \in store' :
        Appears(c) =>
            \E h \in Handlers :
                /\ CallsStore(h) /\ NewCall(h).verb = "create"
                /\ req[h].operation \in ops
                /\ c.name = req[h].name /\ c.namespace = Namespace
                /\ c.labels = MarkerLabels
                /\ WrittenBy(c, req[h])

\* Every record that is in the store stays, under its name, namespace and
\* labels; a create call for its name is refused and leaves it as it is; its
\* data changes only by the patch call of a handler for its name.
UpdatedInPlace ==
    /\ \A d \in store :
          \E c \in store' :
              /\ c.name = d.name /\ c.namespace = d.namespace /\ c.labels = d.labels
              /\ c # d => \E h \in Handlers :
                              /\ CallsStore(h) /\ NewCall(h).verb = "patch"
                              /\ req[h].name = d.name
                              /\ WrittenBy(c, req[h])
    /\ \A h \in Handlers :
          (CallsStore(h) /\ NewCall(h).verb = "create" /\ Records(store, req[h].name) # {})
              => NewCall(h).status \notin {200, 201} /\ store' = store

\* C14 as stated: a record comes into existence only by the create call of a
\* CREATE handler for its name, never by a DELETE handler, and is updated in
\* place by every later CREATE or DELETE handler.
C14_CreatedByCreateOnly == [][CreatedOnlyBy({"CREATE"}) /\ UpdatedInPlace]_vars

\* C14, amended: a record comes into existence only by the create call of the
\* first CREATE or DELETE handler for its name that finds no record, and is
\* updated in place by every later CREATE or DELETE handler for that name.
C14_CreatedByFirstAdmission ==
    [][CreatedOnlyBy({"CREATE", "DELETE"}) /\ UpdatedInPlace]_vars

\* A DELETE handler has created the record of its name and a CREATE handler
\* for that name has met it and patched it: the record has the marker label
\* and the content of the CREATE.
C14_Witness ==
    \E g, h \in Handlers :
        /\ StatusesOf(g) = <<201>> /\ StatusesOf(h) = <<409, 200>>
        /\ req[g].operation = "DELETE" /\ req[h].operation = "CREATE"
        /\ req[g].name = req[h].name
        /\ HasSubnetList(req[h])
        /\ Records(store, req[h].name) # {}
        /\ \A c \in Records(store, req[h].name) :
               c.labels = MarkerLabels /\ Matches(c, req[h])

\* ---------------------------------------------------------------------------
\* C15: records are never removed or duplicated
\* ---------------------------------------------------------------------------

\* All records of name n in the store s, whatever their namespace.
AllNamed(s, n) == {c \in s : c.name = n}

\* C15: in every step, a name that has a record before the step has one after
\* it, no name has more than one record after it, and a store call made in it
\* is a create or a patch, never a delete.
C15_AbsentToPresentOnly ==
    [][/\ \A n \in {c.name : c \in store \cup store'} :
             /\ AllNamed(store, n) # {} => AllNamed(store', n) # {}
             /\ Cardinality(AllNamed(store', n)) <= 1
       /\ \A h \in Handlers :
             CallsStore(h) => NewCall(h).verb \in {"create", "patch"}]_vars

\* A CREATE handler has created the record of its name, a DELETE handler for
\* that name has then met and patched it, and the one record is still there.
C15_Witness ==
    \E g, h \in Handlers :
        /\ StatusesOf(g) = <<201>> /\ StatusesOf(h) = <<409, 200>>
        /\ req[g].operation = "CREATE" /\ req[h].operation = "DELETE"
        /\ req[g].name = req[h].name
        /\ Cardinality(AllNamed(store, req[g].name)) = 1

\* ---------------------------------------------------------------------------
\* C16: the patch overwrites data.subnets and data.populate only
\* ---------------------------------------------------------------------------

\* The record c is the record d with at most data.subnets and data.populate
\* overwritten: name, namespace, labels and every other data key are those of d.
OnlySubnetsAndPopulateDiffer(d, c) ==
    /\ c.name = d.name
    /\ c.namespace = d.namespace
    /\ c.labels = d.labels
    /\ DOMAIN c.data = DOMAIN d.data \cup {"subnets", "populate"}
    /\ \A k \in DOMAIN d.data \ {"subnets", "populate"} : c.data[k] = d.data[k]

\* C16: in a step in which a handler makes its patch call, the record of the
\* request's name is afterwards the record it was, with at most data.subnets
\* and data.populate overwritten, and every other record is untouched.
C16_PatchOverwritesOnlyData ==
    [][\A h \in Handlers :
          (CallsStore(h) /\ NewCall(h).verb = "patch") =>
              /\ \A d \in Records(store, req[h].name) :
                    \E c \in Records(store', req[h].name) :
                        OnlySubnetsAndPopulateDiffer(d, c)
              /\ Cardinality(store') = Cardinality(store)
              /\ store \ Records(store, req[h].name)
                     = store' \ Records(store', req[h].name)]_vars

\* A CREATE handler has patched a record that was made by somebody else: the
\* record has the handler's subnets and populate, a label that is not the
\* marker, no marker label, and its other data key.
C16_Witness ==
    \E h \in Handlers :
        /\ StatusesOf(h) = <<409, 200>>
        /\ req[h].operation = "CREATE" /\ HasSubnetList(req[h])
        /\ \A g \in Handlers \ {h} : calls[g] = <<>>
        /\ \E c \in Records(store, req[h].name) :
              /\ Matches(c, req[h])
              /\ c.labels = PriorConfigMap(req[h].name).labels
              /\ DOMAIN c.labels \cap DOMAIN MarkerLabels = {}
              /\ c.data.comment = PriorConfigMap(req[h].name).data.comment

\* ---------------------------------------------------------------------------
\* C17: the create-then-patch protocol of one handler
\* ---------------------------------------------------------------------------

\* The record c is the full desired record of request r: r's name, the
\* namespace, the marker label, and r's subnets and populate as its only data.
FullDesiredRecord(c, r) ==
    /\ c.name = r.name /\ c.namespace = Namespace
    /\ c.labels = MarkerLabels
    /\ DOMAIN c.data = {"subnets", "populate"}
    /\ WrittenBy(c, r)

\* The store call handler h makes in this step keeps to the protocol.
ProtocolCall(h) ==
    /\ Len(calls[h]) < 2
    /\ Len(calls[h]) = 0 =>
          /\ NewCall(h).verb = "create"
          /\ NewCall(h).status = 201 =>
                \E c \in Records(store', req[h].name) : FullDesiredRecord(c, req[h])
    /\ Len(calls[h]) = 1 =>
          /\ NewCall(h).verb = "patch"
          /\ calls[h][1].verb = "create" /\ calls[h][1].status = 409
    /\ IF NewCall(h).verb = "create" /\ NewCall(h).status = 409
       THEN pc'[h] = "patch"
       ELSE pc'[h] = "done" /\ (IsResponse(resp'[h]) \/ IsFault(resp'[h]))

\* C17: the first store call of a handler is a create, which brings the full
\* desired record when it succeeds; a patch is the second call and follows the
\* handler's own create that was answered 409; a handler makes at most one
\* create and one patch, is at the patch after the 409 and has ended, with a
\* response or a failure, after any other answer; once ended it calls no more.
C17_CreateThenPatch ==
    [][\A h \in Handlers :
          /\ DoneIsFinal(h)
          /\ CallsStore(h) => ProtocolCall(h)]_vars

\* One handler has ended after its create alone, with a response; another has
\* ended after create and patch, with the failure of the patch.
C17_Witness ==
    \E g, h \in Handlers :
        /\ Responded(g) /\ StatusesOf(g) = <<201>> /\ calls[g][1].verb = "create"
        /\ pc[h] = "done" /\ IsFault(resp[h])
        /\ StatusesOf(h) = <<409, 500>>
        /\ calls[h][1].verb = "create" /\ calls[h][2].verb = "patch"

\* ---------------------------------------------------------------------------
\* C18: reconciliations of different names are independent
\* ---------------------------------------------------------------------------

\* The outcomes the store call that handler h makes in this step can have on
\* the store s.
OutcomesOn(s, h) ==
    LET applied == IF NewCall(h).verb = "create"
                   THEN create_call(s, req[h]) ELSE patch_call(s, req[h])
    IN  {applied} \cup FailedCall(s, applied.store)

\* The store call of h in this step leaves the records of every other name as
\* they are, and its status and the record it leaves under its own name are
\* those the call has on a store that holds the records of that name alone.
OwnNameOnly(h) ==
    /\ {c \in store : c.name # req[h].name} = {c \in store' : c.name # req[h].name}
    /\ NewCall(h).name = req[h].name
    /\ \E x \in OutcomesOn(Records(store, req[h].name), h) :
          /\ x.status = NewCall(h).status
          /\ Records(x.store, req[h].name) = Records(store', req[h].name)

\* The record name n had in the beginning, as handler h's first store call
\* found it: none when the create succeeded, the prior one when it conflicted.
FoundBy(h, n) == IF calls[h][1].status = 201 THEN {} ELSE {PriorConfigMap(n)}

\* When h is the one handler that has reconciled its name and it has answered,
\* the record of the name is the one h leaves when it runs on the initial
\* record of the name with no other handler at all.
AsIfAlone(h) ==
    (Responded(h) /\ calls[h] # <<>> /\ ReconcilingFor(req[h].name) = {h})
        => Records(store, req[h].name)
               = Records(run_alone(FoundBy(h, req[h].name), req[h]), req[h].name)

\* C18: every store call of a handler for a name leaves the records of all
\* other names untouched and does not depend on them; and the final record of
\* a name that one handler has reconciled is the one that handler leaves when
\* the handlers for the other names do not run.
C18_NamesIndependent ==
    /\ [][\A h \in Handlers : CallsStore(h) => OwnNameOnly(h)]_vars
    /\ [](\A h \in Handlers : AsIfAlone(h))

\* Two handlers have reconciled two different names, both over an existing
\* record, a CREATE and a DELETE: each name has its own handler's content.
C18_Witness ==
    \E g, h \in Handlers :
        /\ Responded(g) /\ Responded(h)
        /\ StatusesOf(g) = <<409, 200>> /\ StatusesOf(h) = <<409, 200>>
        /\ req[g].name # req[h].name
        /\ req[g].operation = "CREATE" /\ req[h].operation = "DELETE"
        /\ \A c \in Records(store, req[g].name) : Matches(c, req[g])
        /\ \A c \in Records(store, req[h].name) : Matches(c, req[h])
        /\ Records(store, req[g].name) # {} /\ Records(store, req[h].name) # {}

\* ---------------------------------------------------------------------------
\* C19: the label patch attests a written record
\* ---------------------------------------------------------------------------

\* The last store call of handler h succeeded.
LastCallSucceeded(h) ==
    calls[h] # <<>> /\ calls[h][Len(calls[h])].status \in {200, 201}

\* C19: whenever a handler has answered with the label patch, the patch is the
\* one add operation whose value is the request's name, the handler's last
\* store call, a create or a patch for that name, succeeded, and a record of
\* that name is in the store, at that moment and ever after.
C19_LabelAttestsRecord ==
    \A h \in Handlers :
        (Responded(h) /\ HasPatch(Response(h))) =>
            /\ Response(h).patch.text = OneAddOperation(req[h].name)
            /\ LastCallSucceeded(h)
            /\ \A i \in DOMAIN calls[h] : calls[h][i].name = req[h].name
            /\ Records(store, req[h].name) # {}

\* A CREATE handler has answered with the label patch after its patch call,
\* a DELETE handler for the same name has come after it and ended, and the
\* record of the name is in the store.
C19_Witness ==
    \E g, h \in Handlers :
        /\ g < h /\ Responded(g) /\ pc[h] = "done"
        /\ StatusesOf(g) = <<409, 200>> /\ StatusesOf(h) = <<409, 200>>
        /\ req[g].operation = "CREATE" /\ req[h].operation = "DELETE"
        /\ req[g].name = req[h].name
        /\ HasPatch(Response(g))
        /\ Records(store, req[g].name) # {}

\* ---------------------------------------------------------------------------
\* C20: other operations do not touch the store
\* ---------------------------------------------------------------------------

\* C20: the step that handles a request whose operation is neither CREATE nor
\* DELETE ends the handler at once, makes no store call and leaves every record
\* as it is; and the handler of such a request has never made a store call.
C20_PassThroughNoStoreCall ==
    /\ [][\A h \in Handlers :
             (pc[h] = "idle" /\ pc'[h] # "idle" /\ ~Dispatched(req'[h])) =>
                 /\ pc'[h] = "done"
                 /\ store' = store
                 /\ calls' = calls]_vars
    /\ [](\A h \in Handlers :
             (pc[h] # "idle" /\ ~Dispatched(req[h])) => pc[h] = "done" /\ calls[h] = <<>>)

\* An UPDATE request for a name that has a record and a request without an
\* operation have both been handled: no store call was made and the store is
\* one of the initial ones.
C20_Witness ==
    \E g, h \in Handlers :
        /\ pc[g] = "done" /\ pc[h] = "done"
        /\ GetOperation(req[g]) = "UPDATE" /\ Missing(req[h], "operation")
        /\ calls[g] = <<>> /\ calls[h] = <<>>
        /\ Records(store, req[g].name) = {PriorConfigMap(req[g].name)}
        /\ store \in InitialStores

====
